---- MODULE Spec2Model ----
(***************************************************************************)
(* Per-stream Delta xDS processor of go-control-plane                      *)
(* (pkg/server/delta/v2/server.go): the processDelta event loop, its       *)
(* teardown, the request reader goroutine of DeltaStreamHandler, and the   *)
(* cache-side watch producers that feed the muxed response channel; and    *)
(* the earlier processDelta of pkg/server/v2/delta.go with one response    *)
(* channel per resource type.                                              *)
(***************************************************************************)
EXTENDS Integers, Sequences, FiniteSets, TLC

\* ------------------------------------------------------------------ bounds
\* number of requests the transport's Recv delivers on the stream
MaxReqs == 3

\* ------------------------------------------------------- program constants
xdsBufferSize == 1
muxBufferSize == 8

\* resource.AnyType: the default type URL of an ADS stream
AnyType == ""

\* type URLs pre-populated by initStreamState (two of the closed set)
TypeURLs == {"cds", "eds"}

\* resource names a client can subscribe to, and the version descriptors
Resources == {"c1", "c2"}

\* a nil func() / nil *Node / nil request
NilCancel == 0
NoNode == "nil"
NilRequest == [nil |-> TRUE]

\* ------------------------------------------------------------ pure helpers
Digit(d) ==
  CASE d = 0 -> "0" [] d = 1 -> "1" [] d = 2 -> "2" [] d = 3 -> "3"
    [] d = 4 -> "4" [] d = 5 -> "5" [] d = 6 -> "6" [] d = 7 -> "7"
    [] d = 8 -> "8" [] OTHER -> "9"

RECURSIVE FormatInt(_)
\* strconv.FormatInt(n, 10)
FormatInt(n) ==
  IF n < 0 THEN "-" \o FormatInt(0 - n)
  ELSE IF n < 10 THEN Digit(n)
  ELSE FormatInt(n \div 10) \o Digit(n % 10)

\* the resource-version map with no entries
EmptyVersions == [r \in {} |-> "a"]

\* the version maps a cache response can carry
VersionMaps == { [r \in S |-> "a"] : S \in {{}, {"c1", "c2"}} }

\* stream.StreamState{} as initStreamState builds it
EmptyStreamState ==
  [Nonce |-> "", SystemVersion |-> "", ResourceVersions |-> EmptyVersions]

initStreamState == [t \in TypeURLs |-> EmptyStreamState]

\* server.unsubscribe: delete every named resource from the version map
unsubscribe(resources, sv) == [r \in (DOMAIN sv) \ resources |-> sv[r]]

\* the requests a client can put on the stream
Requests ==
  { r \in [ TypeUrl : TypeURLs \cup {""},
            ResponseNonce : {""} \cup { FormatInt(i) : i \in 1..(MaxReqs - 1) },
            Node : {NoNode, "n1"},
            Unsub : {{}, {"c1"}},
            ErrorDetail : BOOLEAN ] :
      \/ r.Node = NoNode /\ r.Unsub = {}
      \/ r.Node = NoNode /\ ~r.ErrorDetail
      \/ r.Unsub = {} /\ ~r.ErrorDetail }

\* the system version the cache assigns to the response of its w-th watch
SystemVersion(w) == "v" \o FormatInt(w)

\* what a cache.DeltaResponse on the channel yields when it is materialised:
\* "ok", a nil response, or an error from GetDeltaDiscoveryResponse,
\* GetSystemVersion or GetDeltaVersionMap
Responses ==
  [ fail : {"ok"}, vm : VersionMaps ]
  \cup [ fail : {"nil", "marshal", "sysver", "vermap"}, vm : {EmptyVersions} ]

\* ------------------------------------------------------------------- state
VARIABLES
  defaultTypeURL,      \* processDelta's argument: AnyType (ADS) or a concrete type
  adsBufferSize,       \* s.muxBufferSize: the default, or what WithADSBufferSize set
  hasCallbacks,        \* s.callbacks != nil: NewServer was given a callback sink
  pc,                  \* position of the processor goroutine
  err,                 \* processDelta's return value
  streamNonce,         \* var streamNonce int64
  deltaNonces,         \* values.deltaNonces: map type URL -> last sent nonce
  deltaCancellations,  \* values.deltaCancellations: map type URL -> cancel handle (watch id) or nil
  deltaStreamStates,   \* values.deltaStreamStates
  deltaResponses,      \* values.deltaResponses: the muxed channel, a FIFO
  node,                \* the remembered node
  cur,                 \* the request of the current loop iteration and what its handling did
  watches,             \* the watches CreateDeltaWatch registered, in creation order
  ctxDone,             \* s.ctx is cancelled
  rpc,                 \* position of the request reader goroutine
  reqStop,             \* the atomic stop flag
  reqClosed,           \* reqCh has been closed
  nReqs,               \* requests Recv has delivered so far
  sent,                \* nonces of the responses handed to str.Send, in order
  cb,                  \* number of invocations of each callback
  prevReq              \* per type: the last request handled, when it created a watch and
                       \* no response of the type was processed since it arrived

vars ==
  << defaultTypeURL, adsBufferSize, hasCallbacks, pc, err, streamNonce, deltaNonces,
     deltaCancellations, deltaStreamStates, deltaResponses, node, cur, watches,
     ctxDone, rpc, reqStop, reqClosed, nReqs, sent, cb, prevReq >>

\* the buffer of the response channel: values.Init(bufferSize)
bufferSize ==
  IF defaultTypeURL = AnyType THEN adsBufferSize ELSE xdsBufferSize

NoRequest == [end |-> "none"]

\* the state of a stream but for the server's options and the stream's type
Start ==
  /\ hasCallbacks \in {TRUE}
  /\ pc = "open"
  /\ err = "nil"
  /\ streamNonce = 0
  /\ deltaNonces = [t \in {} |-> ""]
  /\ deltaCancellations = [t \in {} |-> NilCancel]
  /\ deltaStreamStates = initStreamState
  /\ deltaResponses = << >>
  /\ node = "n0"
  /\ cur = NoRequest
  /\ watches = << >>
  /\ ctxDone = FALSE
  /\ rpc = "recv"
  /\ reqStop = 0
  /\ reqClosed = FALSE
  /\ nReqs = 0
  /\ sent = << >>
  /\ cb = [open |-> 0, closed |-> 0, request |-> 0, response |-> 0]
  /\ prevReq = [t \in TypeURLs |-> NoRequest]

\* a stream, ADS or of one type, of a server built by NewServer without
\* buffer options
Init ==
  /\ defaultTypeURL \in {AnyType, "cds"}
  /\ adsBufferSize = muxBufferSize
  /\ Start

\* a stream of one type of a server built by NewServer without buffer options
InitXDS ==
  /\ defaultTypeURL = "cds"
  /\ adsBufferSize = muxBufferSize
  /\ Start

\* an ADS stream of a server built with WithADSBufferSize(size), size the
\* number of type URLs in use
InitADS ==
  /\ defaultTypeURL = AnyType
  /\ adsBufferSize = Cardinality(TypeURLs)
  /\ Start

\* a Go map lookup m[k] with its zero value
Lookup(m, k, zero) ==
  IF k \in DOMAIN m THEN m[k] ELSE zero

\* MapSet for a map that is rebuilt with the one entry on every assignment
MapSet_Only(m, k, v) ==
  [x \in {k} |-> v]

\* a Go map after m[k] = v
MapSet(m, k, v) ==
  [x \in (DOMAIN m) \cup {k} |-> IF x = k THEN v ELSE m[x]]

\* one more invocation of callback c, when a callback sink is installed
Invoke(c) == IF hasCallbacks THEN [cb EXCEPT ![c] = @ + 1] ELSE cb

\* the cache's cancel function of watch w. A watch that has not responded
\* yet either is removed (it will never respond) or, when its producer had
\* already decided to respond (late), still delivers that response
CancelWatch(ws, w, late) ==
  [ws EXCEPT ![w].cancels = @ + 1,
             ![w].phase = IF @ = "idle" /\ ws[w].cancels = 0
                          THEN (IF late THEN "late" ELSE "dead")
                          ELSE @]

\* the response q of the channel as the processor reads it: the outcome r of
\* its getters is not observed by anyone before process() calls them
Materialise(q, r) ==
  [watch |-> q.watch, fail |-> r.fail, sv |-> SystemVersion(q.watch), vm |-> r.vm]

\* NextNonce without the increment
NextNonce_Same(n) == n

\* the nonce send() stamps on the next response
NextNonce(n) == n + 1

\* update() that leaves the nonce out of the stream state
update_NoNonce(resp, nonce) ==
  [Nonce |-> "", SystemVersion |-> resp.sv, ResourceVersions |-> resp.vm]

\* update(): the stream state derived from a response and its nonce
update(resp, nonce) ==
  [Nonce |-> nonce, SystemVersion |-> resp.sv, ResourceVersions |-> resp.vm]

\* Return for a processor that notes the error and goes on with its loop
Return_Continue(e) ==
  /\ pc' = "loop"
  /\ err' = e
  /\ prevReq' = [t \in TypeURLs |-> NoRequest]

\* a return statement of processDelta: the deferred teardown is next
Return(e) ==
  /\ pc' = "return"
  /\ err' = e
  /\ prevReq' = [t \in TypeURLs |-> NoRequest]

\* process(resp) on the response at the head of the channel; r is what the
\* response yields, sendErr the outcome of str.Send, cont the position the
\* caller continues at
Process(r, sendErr, cont) ==
  LET resp == Materialise(Head(deltaResponses), r)
      typeURL == watches[resp.watch].typeUrl
      n == NextNonce(streamNonce)
      nonce == FormatInt(n)
  IN /\ deltaResponses' = Tail(deltaResponses)
     /\ watches' = [watches EXCEPT ![resp.watch].phase = "processed"]
     /\ IF resp.fail \in {"nil", "marshal"}
        THEN /\ Return(IF resp.fail = "nil" THEN "missing response" ELSE "marshal error")
             /\ cur' = NoRequest
             /\ UNCHANGED << streamNonce, sent, cb, deltaNonces, deltaCancellations,
                             deltaStreamStates >>
        ELSE /\ streamNonce' = n
             /\ cb' = Invoke("response")
             /\ sent' = Append(sent, nonce)
             /\ IF sendErr
                THEN /\ Return("send error")
                     /\ cur' = NoRequest
                     /\ UNCHANGED << deltaNonces, deltaCancellations, deltaStreamStates >>
                ELSE /\ deltaNonces' = MapSet(deltaNonces, typeURL, nonce)
                     /\ deltaCancellations' = MapSet(deltaCancellations, typeURL, NilCancel)
                     /\ IF resp.fail \in {"sysver", "vermap"}
                        THEN /\ deltaStreamStates' =
                                  [deltaStreamStates EXCEPT ![typeURL] = EmptyStreamState]
                             /\ Return(IF resp.fail = "sysver" THEN "system version error"
                                       ELSE "version map error")
                             /\ cur' = NoRequest
                        ELSE /\ deltaStreamStates' =
                                  [deltaStreamStates EXCEPT ![typeURL] = update(resp, nonce)]
                             /\ pc' = cont
                             /\ cur' = IF cont = "drain" THEN cur ELSE NoRequest
                             /\ prevReq' = [prevReq EXCEPT ![typeURL] = NoRequest]
                             /\ UNCHANGED err
     /\ UNCHANGED << defaultTypeURL, adsBufferSize, hasCallbacks, node, ctxDone, rpc,
                     reqStop, reqClosed, nReqs >>

\* OnDeltaStreamOpen, called after the teardown has been deferred
StreamOpen ==
  /\ pc = "open"
  /\ \E fails \in BOOLEAN :
       /\ cb' = Invoke("open")
       /\ IF hasCallbacks /\ fails
          THEN Return("open error") /\ UNCHANGED cur
          ELSE pc' = "loop" /\ UNCHANGED << err, cur, prevReq >>
  /\ UNCHANGED << defaultTypeURL, adsBufferSize, hasCallbacks, streamNonce, deltaNonces,
                  deltaCancellations, deltaStreamStates, deltaResponses, node,
                  watches, ctxDone, rpc, reqStop, reqClosed, nReqs, sent >>

\* CtxDone for a processor that returns past the cancellation of its watches
CtxDone_NoCancel ==
  /\ pc = "loop"
  /\ ctxDone
  /\ pc' = "closing"
  /\ err' = "nil"
  /\ prevReq' = [t \in TypeURLs |-> NoRequest]
  /\ cur' = NoRequest
  /\ UNCHANGED << defaultTypeURL, adsBufferSize, hasCallbacks, streamNonce, deltaNonces,
                  deltaCancellations, deltaStreamStates, deltaResponses, node,
                  watches, ctxDone, rpc, reqStop, reqClosed, nReqs, sent, cb >>

\* case <-s.ctx.Done()
CtxDone ==
  /\ pc = "loop"
  /\ ctxDone
  /\ Return("nil")
  /\ cur' = NoRequest
  /\ UNCHANGED << defaultTypeURL, adsBufferSize, hasCallbacks, streamNonce, deltaNonces,
                  deltaCancellations, deltaStreamStates, deltaResponses, node,
                  watches, ctxDone, rpc, reqStop, reqClosed, nReqs, sent, cb >>

\* case resp := <-values.deltaResponses
ProcessResponse ==
  /\ pc = "loop"
  /\ deltaResponses # << >>
  /\ \E r \in Responses, sendErr \in BOOLEAN : Process(r, sendErr, "loop")

\* RecvClosed for a processor that takes the closed channel for a nil request
RecvClosed_Unavailable ==
  /\ pc = "loop"
  /\ reqClosed
  /\ Return("Unavailable")
  /\ cur' = NoRequest
  /\ UNCHANGED << defaultTypeURL, adsBufferSize, hasCallbacks, streamNonce, deltaNonces,
                  deltaCancellations, deltaStreamStates, deltaResponses, node,
                  watches, ctxDone, rpc, reqStop, reqClosed, nReqs, sent, cb >>

\* case req, more := <-reqCh with more = false
RecvClosed ==
  /\ pc = "loop"
  /\ reqClosed
  /\ Return("nil")
  /\ cur' = NoRequest
  /\ UNCHANGED << defaultTypeURL, adsBufferSize, hasCallbacks, streamNonce, deltaNonces,
                  deltaCancellations, deltaStreamStates, deltaResponses, node,
                  watches, ctxDone, rpc, reqStop, reqClosed, nReqs, sent, cb >>

\* NonceMatches without the comparison of the nonces
NonceMatches_NoAck(nonces, typeURL, nonce) ==
  typeURL \notin DOMAIN nonces

\* NonceMatches for a processor that re-creates the watch on every request
NonceMatches_Always(nonces, typeURL, nonce) ==
  TRUE

\* responseNonce, seen := values.deltaNonces[typeURL]; !seen || responseNonce == nonce
NonceMatches(nonces, typeURL, nonce) ==
  typeURL \notin DOMAIN nonces \/ nonces[typeURL] = nonce

\* HasCancel for a processor that never finds a handle to cancel
HasCancel_Never(cancels, typeURL) ==
  FALSE

\* cancel, seen := values.deltaCancellations[typeURL]; seen && cancel != nil
HasCancel(cancels, typeURL) ==
  typeURL \in DOMAIN cancels /\ cancels[typeURL] # NilCancel

\* the request of this iteration as the callback and the cache see it, the
\* type URL and the node it had when it was received (recv), what
\* values.deltaNonces held for its type then, and what its handling has done
\* so far
Trace(req, recv, e) ==
  [ req |-> req,
    recv |-> [TypeUrl |-> recv.TypeUrl, Node |-> recv.Node],
    seen |-> req.TypeUrl \in DOMAIN deltaNonces,
    lastNonce |-> IF req.TypeUrl \in DOMAIN deltaNonces THEN deltaNonces[req.TypeUrl] ELSE "",
    cancelled |-> NilCancel,
    created |-> NilCancel,
    state |-> EmptyStreamState,
    end |-> e ]

\* what is kept of a request whose handling returned an error
Failed(req) == [end |-> "error", errorDetail |-> req.ErrorDetail]

\* what prevReq remembers of a handled request: the watch it created, unless
\* a response of its type was processed while it was handled
LogEntry(c) ==
  IF /\ c.created # NilCancel
     /\ c.seen = (c.req.TypeUrl \in DOMAIN deltaNonces)
     /\ c.seen => c.lastNonce = deltaNonces[c.req.TypeUrl]
  THEN [end |-> "created", nonce |-> c.req.ResponseNonce, watch |-> c.created]
  ELSE NoRequest

\* the watch the cache registers for a request
NewWatch(req, phase) ==
  [typeUrl |-> req.TypeUrl, cancels |-> 0, phase |-> phase]

\* the response of watch w as it sits on the channel
Queued(w) == [watch |-> w]

\* values.deltaCancellations[typeURL] = s.cache.CreateDeltaWatch(req,
\* values.deltaResponses, values.deltaStreamStates[typeURL]) for the request
\* of trace t; states is values.deltaStreamStates at the call. The cache may
\* write the watch's response to the channel before it returns (sync), and
\* then blocks while the channel is full
Register(t, states, sync) ==
  LET typeURL == t.req.TypeUrl
      w == Len(watches) + 1
      done == [t EXCEPT !.created = w, !.state = states[typeURL], !.end = "ok"]
  IN IF sync /\ Len(deltaResponses) >= bufferSize
     THEN /\ watches' = Append(watches, NewWatch(t.req, "blocked"))
          /\ pc' = "blocked"
          /\ cur' = t
          /\ UNCHANGED << deltaCancellations, deltaResponses, prevReq >>
     ELSE /\ watches' = Append(watches, NewWatch(t.req, IF sync THEN "queued" ELSE "idle"))
          /\ deltaResponses' = IF sync THEN Append(deltaResponses, Queued(w))
                               ELSE deltaResponses
          /\ deltaCancellations' = MapSet(deltaCancellations, typeURL, w)
          /\ cur' = done
          /\ prevReq' = [prevReq EXCEPT ![typeURL] = LogEntry(done)]
          /\ pc' = "loop"

\* RememberNode for a processor that leaves the request as it came
RememberNode_Keep(reqNode, n) ==
  reqNode

\* if req.Node != nil { node = req.Node } else { req.Node = node }: the node
\* of the request and the remembered node afterwards
RememberNode(reqNode, n) ==
  IF reqNode # NoNode THEN reqNode ELSE n

\* MissingTypeURL for a processor that requires the type URL on every stream
MissingTypeURL_Always(typeUrl) ==
  typeUrl = ""

\* if defaultTypeURL == resource.AnyType { if req.TypeUrl == "" { return ... } }
MissingTypeURL(typeUrl) ==
  defaultTypeURL = AnyType /\ typeUrl = ""

\* else if req.TypeUrl == "" { req.TypeUrl = defaultTypeURL }
DefaultType(typeUrl) ==
  IF typeUrl = "" THEN defaultTypeURL ELSE typeUrl

\* Reject for a processor that calls the stream-request callback after it
\* has cancelled the watch of the request's type
Reject_AfterCancel(req) ==
  /\ Return("request error")
  /\ cur' = Failed(req)
  /\ watches' = IF HasCancel(deltaCancellations, req.TypeUrl)
                THEN CancelWatch(watches, deltaCancellations[req.TypeUrl], FALSE)
                ELSE watches
  /\ UNCHANGED << deltaCancellations, deltaResponses >>

\* if err := s.callbacks.OnStreamDeltaRequest(streamID, req); err != nil
\* { return err }
Reject(req) ==
  /\ Return("request error")
  /\ cur' = Failed(req)
  /\ UNCHANGED << watches, deltaCancellations, deltaResponses >>

\* the body of case req, more := <-reqCh for a request that is not nil:
\* all of it when no watch has to be cancelled, else up to the cancel, with
\* the drain and the watch creation to follow. cbErr is the outcome of
\* OnStreamDeltaRequest
HandleRequest(req, cbErr) ==
  LET n == RememberNode(req.Node, node)
      r1 == [req EXCEPT !.Node = n]
      nonce == req.ResponseNonce
  IN /\ node' = n
     /\ IF MissingTypeURL(r1.TypeUrl)
        THEN /\ Return("InvalidArgument")
             /\ cur' = Failed(r1)
             /\ UNCHANGED << deltaStreamStates, cb, watches, deltaCancellations,
                             deltaResponses >>
        ELSE LET r2 == [r1 EXCEPT !.TypeUrl = DefaultType(@)]
                 typeURL == r2.TypeUrl
                 t == Trace(r2, req, "handling")
                 states == IF r2.Unsub # {}
                           THEN [deltaStreamStates EXCEPT ![typeURL].ResourceVersions =
                                   unsubscribe(r2.Unsub, @)]
                           ELSE deltaStreamStates
             IN /\ deltaStreamStates' = states
                /\ cb' = Invoke("request")
                /\ IF hasCallbacks /\ cbErr
                   THEN Reject(r2)
                   ELSE IF NonceMatches(deltaNonces, typeURL, nonce)
                   THEN IF HasCancel(deltaCancellations, typeURL)
                        THEN \E late \in BOOLEAN :
                             /\ watches' = CancelWatch(watches, deltaCancellations[typeURL], late)
                             /\ cur' = [t EXCEPT !.cancelled = deltaCancellations[typeURL]]
                             /\ pc' = "drain"
                             /\ UNCHANGED << err, prevReq, deltaCancellations, deltaResponses >>
                        ELSE /\ \E sync \in BOOLEAN : Register(t, states, sync)
                             /\ UNCHANGED err
                   ELSE /\ cur' = [t EXCEPT !.end = "ok"]
                        /\ prevReq' = [prevReq EXCEPT ![typeURL] = LogEntry(t)]
                        /\ pc' = "loop"
                        /\ UNCHANGED << err, watches, deltaCancellations, deltaResponses >>

\* case req, more := <-reqCh with a request the reader is pushing
RecvRequest ==
  /\ pc = "loop"
  /\ rpc = "push"
  /\ rpc' = "recv"
  /\ \E req \in Requests \cup {NilRequest} :
       IF req = NilRequest
       THEN /\ Return("Unavailable")
            /\ cur' = NoRequest
            /\ UNCHANGED << node, deltaStreamStates, cb, watches, deltaCancellations,
                            deltaResponses >>
       ELSE \E cbErr \in BOOLEAN : HandleRequest(req, cbErr)
  /\ UNCHANGED << defaultTypeURL, adsBufferSize, hasCallbacks, streamNonce, deltaNonces,
                  ctxDone, reqStop, reqClosed, nReqs, sent >>

\* processAll(): one iteration that finds a response on the channel
DrainProcess ==
  /\ pc = "drain"
  /\ deltaResponses # << >>
  /\ \E r \in Responses, sendErr \in BOOLEAN : Process(r, sendErr, "drain")

\* processAll(): the default arm, the channel is empty
DrainDone ==
  /\ pc = "drain"
  /\ deltaResponses = << >>
  /\ pc' = "create"
  /\ UNCHANGED << defaultTypeURL, adsBufferSize, hasCallbacks, err, streamNonce, deltaNonces,
                  deltaCancellations, deltaStreamStates, deltaResponses, node, cur,
                  watches, ctxDone, rpc, reqStop, reqClosed, nReqs, sent, cb, prevReq >>

\* the watch creation that follows the drain
CreateWatch ==
  /\ pc = "create"
  /\ \E sync \in BOOLEAN : Register(cur, deltaStreamStates, sync)
  /\ UNCHANGED << defaultTypeURL, adsBufferSize, hasCallbacks, err, streamNonce, deltaNonces,
                  deltaStreamStates, node, ctxDone, rpc, reqStop, reqClosed,
                  nReqs, sent, cb >>

\* the cancel handles values.Cancel() invokes: every non-nil entry
HeldCancels(cancels) ==
  { cancels[t] : t \in { x \in DOMAIN cancels : cancels[x] # NilCancel } }

RECURSIVE CancelEach(_, _, _)
\* invoke the cancel handles of the set held one after the other
CancelEach(ws, held, lateSet) ==
  IF held = {} THEN ws
  ELSE LET w == CHOOSE x \in held : TRUE
       IN CancelEach(CancelWatch(ws, w, w \in lateSet), held \ {w}, lateSet)

\* watches.Cancel() that invokes nothing
WatchesCancel_None(ws, cancels, lateSet) ==
  ws

\* watches.Cancel(): invoke every non-nil cancel handle
WatchesCancel(ws, cancels, lateSet) ==
  CancelEach(ws, HeldCancels(cancels), lateSet)

\* the deferred function, first statement: values.Cancel()
TeardownCancel ==
  /\ pc = "return"
  /\ \E lateSet \in SUBSET HeldCancels(deltaCancellations) :
       watches' = WatchesCancel(watches, deltaCancellations, lateSet)
  /\ pc' = "closing"
  /\ UNCHANGED << defaultTypeURL, adsBufferSize, hasCallbacks, err, streamNonce, deltaNonces,
                  deltaCancellations, deltaStreamStates, deltaResponses, node, cur,
                  ctxDone, rpc, reqStop, reqClosed, nReqs, sent, cb, prevReq >>

\* TeardownClosed for a teardown that is deferred after a successful
\* OnDeltaStreamOpen only
TeardownClosed_AfterOpen ==
  /\ pc = "closing"
  /\ cb' = IF err = "open error" THEN cb ELSE Invoke("closed")
  /\ pc' = "done"
  /\ streamNonce' = 0
  /\ deltaNonces' = [t \in {} |-> ""]
  /\ deltaCancellations' = [t \in {} |-> NilCancel]
  /\ deltaStreamStates' = initStreamState
  /\ node' = "n0"
  /\ UNCHANGED << defaultTypeURL, adsBufferSize, hasCallbacks, err, deltaResponses, cur, prevReq,
                  watches, ctxDone, rpc, reqStop, reqClosed, nReqs, sent >>

\* the deferred function, second statement: OnDeltaStreamClosed(streamID);
\* processDelta has then returned and the locals of its frame are gone
TeardownClosed ==
  /\ pc = "closing"
  /\ cb' = Invoke("closed")
  /\ pc' = "done"
  /\ streamNonce' = 0
  /\ deltaNonces' = [t \in {} |-> ""]
  /\ deltaCancellations' = [t \in {} |-> NilCancel]
  /\ deltaStreamStates' = initStreamState
  /\ node' = "n0"
  /\ UNCHANGED << defaultTypeURL, adsBufferSize, hasCallbacks, err, deltaResponses, cur, prevReq,
                  watches, ctxDone, rpc, reqStop, reqClosed, nReqs, sent >>

\* DeltaStreamHandler after processDelta returned: atomic.StoreInt32(&reqStop, 1)
StoreStop ==
  /\ pc = "done"
  /\ reqStop = 0
  /\ reqStop' = 1
  /\ UNCHANGED << defaultTypeURL, adsBufferSize, hasCallbacks, pc, err, streamNonce, deltaNonces,
                  deltaCancellations, deltaStreamStates, deltaResponses, node, cur,
                  watches, ctxDone, rpc, reqClosed, nReqs, sent, cb, prevReq >>

\* the reader goroutine: str.Recv() returns a request or an error (e), the
\* stop flag is loaded, and the reader exits, closes the channel, or goes on
\* to push the request. Recv's return touches nothing shared, so it is one
\* step with the load that follows it. The deferred teardown runs without a
\* reader step in between: it shares nothing with the reader
ReaderRecv ==
  /\ pc \notin {"return", "closing"}
  /\ rpc = "recv"
  /\ \E e \in BOOLEAN :
       /\ ~e => nReqs < MaxReqs
       /\ nReqs' = IF e THEN nReqs ELSE nReqs + 1
       /\ IF reqStop # 0
          THEN rpc' = "exit" /\ UNCHANGED reqClosed
          ELSE IF e
          THEN rpc' = "exit" /\ reqClosed' = TRUE
          ELSE rpc' = "push" /\ UNCHANGED reqClosed
  /\ UNCHANGED << defaultTypeURL, adsBufferSize, hasCallbacks, pc, err, streamNonce, deltaNonces,
                  deltaCancellations, deltaStreamStates, deltaResponses, node, cur,
                  watches, ctxDone, reqStop, sent, cb, prevReq >>

\* the server context is cancelled; once processDelta is returning nothing
\* reads the context any more
ContextCancel ==
  /\ pc \notin {"return", "closing", "done"}
  /\ ~ctxDone
  /\ ctxDone' = TRUE
  /\ UNCHANGED << defaultTypeURL, adsBufferSize, hasCallbacks, pc, err, streamNonce, deltaNonces,
                  deltaCancellations, deltaStreamStates, deltaResponses, node, cur,
                  watches, rpc, reqStop, reqClosed, nReqs, sent, cb, prevReq >>

\* a watch's producer writes its response to the channel: the watch was not
\* cancelled, or it was cancelled after the producer's decision to respond.
\* A write that falls between the return statement and the teardown's cancel
\* is the write of a late producer after it
CacheEnqueue ==
  /\ pc \notin {"return", "closing"}
  /\ \E w \in DOMAIN watches :
       /\ watches[w].phase \in {"idle", "late"}
       /\ Len(deltaResponses) < bufferSize
       /\ deltaResponses' = Append(deltaResponses, Queued(w))
       /\ watches' = [watches EXCEPT ![w].phase = "queued"]
  /\ UNCHANGED << defaultTypeURL, adsBufferSize, hasCallbacks, pc, err, streamNonce, deltaNonces,
                  deltaCancellations, deltaStreamStates, node, cur,
                  ctxDone, rpc, reqStop, reqClosed, nReqs, sent, cb, prevReq >>

Next ==
  \/ StreamOpen
  \/ CtxDone
  \/ ProcessResponse
  \/ RecvClosed
  \/ RecvRequest
  \/ DrainProcess
  \/ DrainDone
  \/ CreateWatch
  \/ TeardownCancel
  \/ TeardownClosed
  \/ StoreStop
  \/ ReaderRecv
  \/ ContextCancel
  \/ CacheEnqueue

Spec == Init /\ [][Next]_vars

SpecADS == InitADS /\ [][Next]_vars

\* the steps of the goroutine that runs processDelta
Processor ==
  \/ StreamOpen
  \/ CtxDone
  \/ ProcessResponse
  \/ RecvClosed
  \/ RecvRequest
  \/ DrainProcess
  \/ DrainDone
  \/ CreateWatch
  \/ TeardownCancel
  \/ TeardownClosed

\* a stream of one type, on which the scheduler runs the processor's
\* goroutine while it can take a step
FairSpec == InitXDS /\ [][Next]_vars /\ WF_vars(Processor)

\* ------------------------------------------- the per-type-channel variant
\* pkg/server/v2/delta.go: the earlier processDelta, with one response
\* channel, one nonce and one cancel handle per resource type in the fields
\* of values (deltaClusters, deltaClusterNonce, deltaClusterCancel, ...) and
\* the system versions in s.deltaVersions. Here deltaNonces[t] is the nonce
\* field of type t (absent: ""), deltaCancellations[t] its cancel field
\* (absent: nil) and deltaStreamStates[t].SystemVersion is s.deltaVersions[t].
\* The channel field of t is assigned together with the cancel field, by
\* CreateDeltaWatch, and is the channel of the watch deltaCancellations[t];
\* the muxed channel deltaResponses does not exist and stays empty. The
\* handler, its reader goroutine and the deferred values.Cancel() read as in
\* the muxed variant.

\* var nonce string; if req.Node != nil { nonce = req.GetResponseNonce() }
\* else { nonce = strconv.FormatInt(streamNonce, 10) }
RequestNonce(reqNode, responseNonce, n) ==
  IF reqNode # NoNode THEN responseNonce ELSE FormatInt(n)

\* values.deltaClusterNonce == "" || values.deltaClusterNonce == nonce
NonceMatchesPerType(last, nonce) ==
  last = "" \/ last = nonce

\* what a response read from a per-type channel can yield: createDeltaResponse
\* and GetSystemVersion are the calls that can fail
ResponsesPerType == { r \in Responses : r.fail # "vermap" }

\* case resp, more := <-values.deltaClusters (and the arms of the other
\* types): the channel of type t is closed, or holds the response of the
\* watch of t
ResponsePerType ==
  /\ pc = "loop"
  /\ \E t \in TypeURLs :
       LET w == Lookup(deltaCancellations, t, NilCancel)
           n == NextNonce(streamNonce)
           nonce == FormatInt(n)
       IN /\ w # NilCancel
          /\ watches[w].phase \in {"queued", "closed"}
          /\ IF watches[w].phase = "closed"
             THEN /\ Return("Unavailable")
                  /\ UNCHANGED << watches, streamNonce, cb, sent, deltaStreamStates,
                                  deltaNonces >>
             ELSE \E r \in ResponsesPerType, sendErr \in BOOLEAN :
                  /\ watches' = [watches EXCEPT ![w].phase = "processed"]
                  /\ IF r.fail \in {"nil", "marshal"}
                     THEN /\ Return(IF r.fail = "nil" THEN "missing response"
                                    ELSE "marshal error")
                          /\ UNCHANGED << streamNonce, cb, sent, deltaStreamStates,
                                          deltaNonces >>
                     ELSE /\ streamNonce' = n
                          /\ cb' = Invoke("response")
                          /\ sent' = Append(sent, nonce)
                          /\ IF sendErr
                             THEN /\ Return("send error")
                                  /\ UNCHANGED << deltaStreamStates, deltaNonces >>
                             ELSE IF r.fail = "sysver"
                             THEN /\ deltaStreamStates' =
                                       [deltaStreamStates EXCEPT ![t].SystemVersion = ""]
                                  /\ Return("system version error")
                                  /\ UNCHANGED deltaNonces
                             ELSE /\ deltaStreamStates' =
                                       [deltaStreamStates EXCEPT
                                          ![t].SystemVersion = SystemVersion(w)]
                                  /\ deltaNonces' = MapSet(deltaNonces, t, nonce)
                                  /\ pc' = "loop"
                                  /\ UNCHANGED << err, prevReq >>
  /\ cur' = NoRequest
  /\ UNCHANGED << defaultTypeURL, adsBufferSize, hasCallbacks, deltaCancellations,
                  deltaResponses, node, ctxDone, rpc, reqStop, reqClosed, nReqs >>

\* the switch on req.TypeUrl: when the nonce field of the type is empty or
\* equals nonce, invoke the cancel field if it is not nil and assign channel
\* and cancel from CreateDeltaWatch
ReconcilePerType(t, nonce) ==
  LET typeURL == t.req.TypeUrl
      held == Lookup(deltaCancellations, typeURL, NilCancel)
      w == Len(watches) + 1
  IN IF NonceMatchesPerType(Lookup(deltaNonces, typeURL, ""), nonce)
     THEN \E late \in BOOLEAN, sync \in BOOLEAN :
          /\ watches' =
               Append(IF held # NilCancel THEN CancelWatch(watches, held, late) ELSE watches,
                      NewWatch(t.req, IF sync THEN "queued" ELSE "idle"))
          /\ deltaCancellations' = MapSet(deltaCancellations, typeURL, w)
          /\ cur' = [t EXCEPT !.cancelled = held, !.created = w, !.end = "ok"]
     ELSE /\ cur' = [t EXCEPT !.end = "ok"]
          /\ UNCHANGED << watches, deltaCancellations >>

\* case req, more := <-reqCh with a request the reader is pushing
RequestPerType ==
  /\ pc = "loop"
  /\ rpc = "push"
  /\ rpc' = "recv"
  /\ \E req \in Requests \cup {NilRequest} :
       IF req = NilRequest
       THEN /\ Return("Unavailable")
            /\ cur' = NoRequest
            /\ UNCHANGED << node, cb, watches, deltaCancellations >>
       ELSE LET nonce == RequestNonce(req.Node, req.ResponseNonce, streamNonce)
                n == RememberNode(req.Node, node)
                r1 == [req EXCEPT !.Node = n]
            IN /\ node' = n
               /\ IF MissingTypeURL(r1.TypeUrl)
                  THEN /\ Return("InvalidArgument")
                       /\ cur' = Failed(r1)
                       /\ UNCHANGED << cb, watches, deltaCancellations >>
                  ELSE LET r2 == [r1 EXCEPT !.TypeUrl = DefaultType(@)]
                       IN /\ cb' = Invoke("request")
                          /\ \E cbErr \in BOOLEAN :
                               IF hasCallbacks /\ cbErr
                               THEN /\ Return("request error")
                                    /\ cur' = Failed(r2)
                                    /\ UNCHANGED << watches, deltaCancellations >>
                               ELSE /\ ReconcilePerType(Trace(r2, req, "handling"), nonce)
                                    /\ UNCHANGED << pc, err, prevReq >>
  /\ UNCHANGED << defaultTypeURL, adsBufferSize, hasCallbacks, streamNonce, deltaNonces,
                  deltaStreamStates, deltaResponses, ctxDone, reqStop, reqClosed, nReqs,
                  sent >>

\* the deferred function, second statement: OnStreamClosed(streamID);
\* processDelta has returned, s.deltaVersions outlives it
ClosedPerType ==
  /\ pc = "closing"
  /\ cb' = Invoke("closed")
  /\ pc' = "done"
  /\ streamNonce' = 0
  /\ deltaNonces' = [t \in {} |-> ""]
  /\ deltaCancellations' = [t \in {} |-> NilCancel]
  /\ node' = "n0"
  /\ UNCHANGED << defaultTypeURL, adsBufferSize, hasCallbacks, err, deltaStreamStates,
                  deltaResponses, cur, prevReq, watches, ctxDone, rpc, reqStop,
                  reqClosed, nReqs, sent >>

\* a watch's producer writes its response to the channel of the watch
WatchRespond ==
  /\ pc \notin {"return", "closing", "done"}
  /\ \E w \in DOMAIN watches :
       /\ watches[w].phase \in {"idle", "late"}
       /\ watches' = [watches EXCEPT ![w].phase = "queued"]
  /\ UNCHANGED << defaultTypeURL, adsBufferSize, hasCallbacks, pc, err, streamNonce, deltaNonces,
                  deltaCancellations, deltaStreamStates, deltaResponses, node, cur,
                  ctxDone, rpc, reqStop, reqClosed, nReqs, sent, cb, prevReq >>

\* the cache closes the channel of a watch that has not responded
WatchFail ==
  /\ pc \notin {"return", "closing", "done"}
  /\ \E w \in DOMAIN watches :
       /\ watches[w].phase = "idle"
       /\ watches[w].cancels = 0
       /\ watches' = [watches EXCEPT ![w].phase = "closed"]
  /\ UNCHANGED << defaultTypeURL, adsBufferSize, hasCallbacks, pc, err, streamNonce, deltaNonces,
                  deltaCancellations, deltaStreamStates, deltaResponses, node, cur,
                  ctxDone, rpc, reqStop, reqClosed, nReqs, sent, cb, prevReq >>

NextPerType ==
  \/ StreamOpen
  \/ CtxDone
  \/ ResponsePerType
  \/ RecvClosed
  \/ RequestPerType
  \/ TeardownCancel
  \/ ClosedPerType
  \/ StoreStop
  \/ ReaderRecv
  \/ ContextCancel
  \/ WatchRespond
  \/ WatchFail

SpecPerType == Init /\ [][NextPerType]_vars

\* ------------------------------------------------------------ properties
\* the types of the watches and whether a watch is active: registered, its
\* cancel handle not invoked, its response not processed
WatchesOf(t) == { w \in DOMAIN watches : watches[w].typeUrl = t }

Active(w) == watches[w].cancels = 0 /\ watches[w].phase \in {"idle", "queued"}

\* the request of trace c found no nonce recorded for its type, or carries
\* the nonce recorded for it
Matched(c) == ~c.seen \/ c.lastNonce = c.req.ResponseNonce

\* the number of cancel invocations over all watches
RECURSIVE SumCancels(_, _)
SumCancels(ws, n) == IF n = 0 THEN 0 ELSE ws[n].cancels + SumCancels(ws, n - 1)

Cancels(ws) == SumCancels(ws, Len(ws))

\* C1: a request that reaches the reconciliation creates a watch if and only
\* if no nonce is recorded for its type or it carries the recorded nonce, and
\* a request with a mismatching nonce neither cancels nor creates a watch. The
\* handling of a matching request ends with the new watch unless the drain
\* that follows the cancel returns an error and ends the stream; watches are
\* created, and cancelled outside the teardown, for matching requests only.
C1_CreatesIffMatched ==
  /\ [](cur.end = "ok" =>
          /\ (cur.created # NilCancel) <=> Matched(cur)
          /\ ~Matched(cur) => cur.cancelled = NilCancel)
  /\ [][cur.end = "handling" /\ cur'.end # "handling"
          => \/ cur'.end = "ok" /\ cur'.created # NilCancel
             \/ pc = "drain" /\ pc' = "return"]_vars
  /\ [][Len(watches') # Len(watches)
          => /\ Len(watches') = Len(watches) + 1
             /\ Matched(cur')
             /\ watches'[Len(watches')].typeUrl = cur'.req.TypeUrl
             /\ pc' = "blocked" \/ cur'.created = Len(watches')]_vars
  /\ [][Cancels(watches') # Cancels(watches) /\ pc # "return"
          => Matched(cur') /\ pc' = "drain"]_vars

\* an ACK of the last response of its type has cancelled the watch of the
\* type and created a new one
C1_Witness ==
  /\ cur.end = "ok"
  /\ cur.seen
  /\ cur.req.ResponseNonce = cur.lastNonce
  /\ cur.cancelled # NilCancel
  /\ cur.created # NilCancel

\* the decimal strings "1", "2", "3", ...
DecimalStrings ==
  << "1", "2", "3", "4", "5", "6", "7", "8", "9", "10", "11", "12" >>

\* C2: the nonces handed to Send on a stream are "1", "2", "3", ... in send
\* order, whatever the type of the response and whether it is sent from the
\* main loop or from the drain.
C2_NoncesCountUp ==
  /\ Len(sent) <= Len(DecimalStrings)
  /\ \A i \in 1..Len(sent) : sent[i] = DecimalStrings[i]

\* the drain has sent the second response of the stream, of the type of the
\* request being handled
C2_Witness ==
  /\ pc = "drain"
  /\ Len(sent) >= 2
  /\ cur.seen
  /\ deltaNonces[cur.req.TypeUrl] # cur.lastNonce

\* C3 as claimed: at most one watch is active per type URL in every
\* reachable state.
C3_AtMostOneActive ==
  \A t \in TypeURLs : Cardinality({ w \in WatchesOf(t) : Active(w) }) <= 1

\* C4 as claimed: when a watch is registered for a type, every earlier watch
\* of the type that is still outstanding has been cancelled before, and when
\* a watch was cancelled the creation follows the drain of the channel.
C4_CancelDrainCreate ==
  /\ [][Len(watches') = Len(watches) + 1
          => \A w \in DOMAIN watches :
               watches[w].typeUrl = watches'[Len(watches')].typeUrl => ~Active(w)]_vars
  /\ [][pc' = "create" /\ pc # "create"
          => pc = "drain" /\ deltaResponses = << >> /\ cur.cancelled # NilCancel]_vars

\* the processor takes a request off the request channel in this step and
\* gets past the type URL check and the stream-request callback
Starts ==
  /\ pc = "loop" /\ rpc = "push" /\ rpc' = "recv"
  /\ cur'.end \in {"handling", "ok"}

\* C5 as claimed: a request with an ErrorDetail is only logged, it does not
\* end the stream because of the ErrorDetail and never has a watch cancelled
\* or created, whatever nonce it carries.
C5_ErrorDetailNoWatch ==
  /\ cur.end \in {"handling", "ok"} /\ cur.req.ErrorDetail
       => cur.cancelled = NilCancel /\ cur.created = NilCancel
  /\ pc = "return" /\ cur.end = "error" /\ cur.errorDetail
       => err \in {"InvalidArgument", "request error"}

\* C5 amended: a request with an ErrorDetail is only logged; it ends the stream
\* only for the reasons a request without ErrorDetail does, and it is then
\* reconciled as any request: a watch is cancelled or created for it exactly
\* when the type has no recorded nonce or the request carries the recorded one.
C5_ErrorDetailReconciled ==
  /\ cur.end = "ok" /\ cur.req.ErrorDetail
       => /\ (cur.created # NilCancel) <=> Matched(cur)
          /\ (cur.cancelled # NilCancel) => Matched(cur)
  /\ cur.end = "handling" /\ cur.req.ErrorDetail
       => Matched(cur) /\ cur.created = NilCancel
  /\ pc = "return" /\ cur.end = "error" /\ cur.errorDetail
       => err \in {"InvalidArgument", "request error"}

\* a NACK that carries the nonce of the last response of its type has created
\* a watch
C5_Witness ==
  /\ cur.end = "ok"
  /\ cur.req.ErrorDetail
  /\ cur.seen
  /\ cur.created # NilCancel

\* the watches whose cancel handle values.deltaCancellations holds
Held == { w \in DOMAIN watches : \E t \in DOMAIN deltaCancellations : deltaCancellations[t] = w }

\* C6: when the stream-open callback succeeded, every return of the processor
\* is followed by one teardown: each cancel handle held is invoked once, then
\* the stream-closed callback is invoked, once, and no callback is invoked
\* after it.
C6_TeardownOnce ==
  /\ [][pc = "return" /\ pc' # "return" /\ err # "open error"
          => /\ pc' = "closing"
             /\ cb'.closed = 0
             /\ \A w \in DOMAIN watches :
                  watches'[w].cancels = watches[w].cancels + (IF w \in Held THEN 1 ELSE 0)]_vars
  /\ [][pc = "closing" /\ pc' # "closing" => pc' = "done" /\ cb'.closed = cb.closed + 1]_vars
  /\ [][cb'.closed # cb.closed => pc = "closing"]_vars
  /\ [][(pc = "closing" \/ pc = "done") => Cancels(watches') = Cancels(watches)]_vars
  /\ [][cb.closed >= 1 => cb' = cb /\ pc' = "done"]_vars
  /\ [](pc = "done" /\ err # "open error" => cb.open = 1 /\ cb.closed = 1)
  /\ [](pc \in {"open", "loop", "drain", "create", "blocked", "return"} => cb.closed = 0)

\* a stream with one watch ended on a nil request: the teardown has invoked
\* the watch's cancel handle and then the stream-closed callback
C6_Witness ==
  /\ pc = "done"
  /\ err = "Unavailable"
  /\ cb.open = 1
  /\ cb.closed = 1
  /\ Len(watches) = 1
  /\ watches[1].cancels = 1

\* C7 as claimed: when the stream-open callback returns an error the
\* processor returns it immediately and stream-closed is not invoked.
C7_OpenErrorNoClosed ==
  /\ [][pc = "open" /\ cb'.open = 1 /\ pc' # "loop" => pc' = "return" /\ err' = "open error"]_vars
  /\ [](err = "open error" => cb.closed = 0)

\* C7 amended: when the stream-open callback returns an error the processor
\* returns it immediately, no request and no response is handled, and the
\* teardown, deferred before the callback is called, still invokes
\* stream-closed once.
C7_OpenErrorStillClosed ==
  /\ [][pc = "open" /\ cb'.open = 1 /\ pc' # "loop" => pc' = "return" /\ err' = "open error"]_vars
  /\ [](err = "open error"
          => /\ pc \in {"return", "closing", "done"}
             /\ cb.open = 1 /\ cb.request = 0 /\ cb.response = 0
             /\ sent = << >> /\ watches = << >>)
  /\ [](err = "open error" /\ pc = "done" => cb.closed = 1)
  /\ [](err = "open error" /\ pc # "done" => cb.closed = 0)

\* the processor has returned the error of the stream-open callback
C7_Witness ==
  /\ pc = "done"
  /\ err = "open error"
  /\ cb.closed = 1

\* C8 as claimed: the stream state a watch is created with holds none of the
\* resource names its request unsubscribed.
C8_UnsubscribedAtCreate ==
  cur.end = "ok" /\ cur.created # NilCancel
    => cur.req.Unsub \cap DOMAIN cur.state.ResourceVersions = {}

\* C9 as claimed: of two requests in a row for a type with the same
\* ResponseNonce and no response of the type processed between them, the first
\* creates a watch and the second neither creates nor cancels one.
C9_SecondCreatesNone ==
  [][LET t == cur'.req.TypeUrl
     IN Starts /\ prevReq[t].end = "created" /\ prevReq[t].nonce = cur'.req.ResponseNonce
          => cur'.cancelled = NilCancel /\ cur'.created = NilCancel]_vars

\* C9 amended: of two such requests the second cancels the watch the first
\* created, drains, and creates a replacement unless the drain returns an
\* error: two watches are created and the first is cancelled.
C9_SecondReplaces ==
  /\ [][LET t == cur'.req.TypeUrl
        IN Starts /\ prevReq[t].end = "created" /\ prevReq[t].nonce = cur'.req.ResponseNonce
             => /\ pc' = "drain"
                /\ cur'.cancelled = prevReq[t].watch
                /\ watches'[cur'.cancelled].cancels = watches[cur'.cancelled].cancels + 1
                /\ cur'.created = NilCancel]_vars
  /\ [][cur.end = "handling" /\ cur'.end # "handling"
          => \/ pc = "create" /\ cur'.end = "ok" /\ cur'.created = Len(watches) + 1
                /\ cur'.cancelled = cur.cancelled
             \/ pc = "drain" /\ pc' = "return"]_vars

\* the second of two requests with the same nonce has cancelled the watch of
\* the first and drained the channel; the replacement is next
C9_Witness ==
  /\ pc = "create"
  /\ prevReq[cur.req.TypeUrl].end = "created"
  /\ prevReq[cur.req.TypeUrl].nonce = cur.req.ResponseNonce
  /\ cur.cancelled = prevReq[cur.req.TypeUrl].watch

\* C10 as claimed: the response of a cancelled watch is processed only by the
\* drain that follows the cancel, before the replacement is registered.
C10_CancelledOnlyDrained ==
  [][\A w \in DOMAIN watches :
       watches[w].cancels > 0 /\ watches[w].phase = "queued" /\ watches'[w].phase = "processed"
         => pc = "drain" /\ cur.cancelled = w]_vars

\* the responses in flight: written to the channel and not yet processed, or
\* being written by a producer (one that responds after its cancel, or one
\* that writes inside CreateDeltaWatch and finds the channel full)
InFlight ==
  { w \in DOMAIN watches : watches[w].phase \in {"queued", "late", "blocked"} }

\* C11 as claimed: on an ADS stream whose response channel has room for one
\* response per type URL in use, the responses in flight never outnumber the
\* buffer and the processor is never blocked in CreateDeltaWatch by a cache
\* that cannot write.
C11_AdsNeverBlocks ==
  defaultTypeURL = AnyType /\ bufferSize >= Cardinality(TypeURLs)
    => pc # "blocked" /\ Cardinality(InFlight) <= bufferSize

\* C12 as claimed: on a single-type stream (buffer 1) at most one response
\* is in flight and the processor is never blocked in CreateDeltaWatch.
C12_OneInFlight ==
  defaultTypeURL # AnyType
    => pc # "blocked" /\ Cardinality(InFlight) <= xdsBufferSize

\* C13: once the server context is cancelled the processor returns in the
\* end, unless the cache keeps it inside CreateDeltaWatch, and when it is
\* through its teardown's values.Cancel() every cancel handle held in
\* values.deltaCancellations has been invoked.
C13_CtxDoneReturns ==
  /\ ctxDone ~> (pc = "done" \/ pc = "blocked")
  /\ [](ctxDone /\ pc = "closing" => \A w \in Held : watches[w].cancels >= 1)

\* the processor has returned nil on the cancelled context, the request
\* channel still open, and the teardown has cancelled the stream's watch
C13_Witness ==
  /\ pc = "done"
  /\ ctxDone
  /\ ~reqClosed
  /\ err = "nil"
  /\ Len(watches) = 1
  /\ watches[1].cancels = 1
  /\ watches[1].phase \in {"dead", "late"}

\* C14: a request that reaches the stream-request callback or the cache
\* carries a node: its own, which then is the remembered node, or, when it
\* came without one, the node remembered last.
C14_NodeFilled ==
  /\ [][Starts
          => /\ cur'.req.Node # NoNode
             /\ cur'.req.Node = (IF cur'.recv.Node # NoNode THEN cur'.recv.Node ELSE node)
             /\ node' = cur'.req.Node]_vars
  /\ [][cb'.request # cb.request => node' # NoNode]_vars
  /\ [][node' # node /\ pc # "closing" => pc = "loop" /\ rpc = "push" /\ rpc' = "recv"]_vars
  /\ [](cur.end = "handling" \/ cur.end = "ok" => cur.req.Node = node /\ node # NoNode)

\* a request that came without a node was given the node of an earlier
\* request, and a watch was created for it
C14_Witness ==
  /\ cur.end = "ok"
  /\ cur.recv.Node = NoNode
  /\ cur.req.Node = "n1"
  /\ cur.created # NilCancel

\* C15: on an ADS stream a request without type URL ends the stream with
\* InvalidArgument, no callback invoked, no unsubscribe applied, no watch
\* cancelled or created; on a single-type stream it is given the default type
\* URL and handled as any request.
C15_MissingTypeURL ==
  /\ [][err' = "InvalidArgument" /\ err # "InvalidArgument"
          => /\ defaultTypeURL = AnyType
             /\ pc = "loop" /\ rpc = "push" /\ pc' = "return"
             /\ cb' = cb
             /\ deltaStreamStates' = deltaStreamStates
             /\ watches' = watches
             /\ deltaCancellations' = deltaCancellations
             /\ deltaResponses' = deltaResponses
             /\ sent' = sent]_vars
  /\ [][Starts
          => /\ cur'.req.TypeUrl # ""
             /\ cur'.req.TypeUrl = (IF cur'.recv.TypeUrl = "" THEN defaultTypeURL
                                    ELSE cur'.recv.TypeUrl)
             /\ cb'.request = cb.request + 1]_vars
  /\ [](defaultTypeURL # AnyType => err # "InvalidArgument")

\* an ADS stream with a watch has ended on a request without type URL
C15_Witness ==
  /\ err = "InvalidArgument"
  /\ pc = "return"
  /\ Len(watches) = 1
  /\ cb.request = 1

\* the errors of send(): a nil response, GetDeltaDiscoveryResponse failing,
\* str.Send failing
SendFailed(e) == e \in {"missing response", "marshal error", "send error"}

\* C16: when a response is missing, does not serialise or cannot be sent,
\* the processor returns that error with values.deltaNonces,
\* values.deltaCancellations and values.deltaStreamStates as they were, sends
\* no further response, and the teardown runs.
C16_SendErrorEndsStream ==
  /\ [][SendFailed(err') /\ err' # err
          => /\ pc = "loop" \/ pc = "drain"
             /\ pc' = "return"
             /\ deltaResponses' = Tail(deltaResponses)
             /\ deltaNonces' = deltaNonces
             /\ deltaCancellations' = deltaCancellations
             /\ deltaStreamStates' = deltaStreamStates]_vars
  /\ [][SendFailed(err)
          => /\ err' = err
             /\ sent' = sent
             /\ cb'.response = cb.response
             /\ deltaNonces' = deltaNonces \/ pc = "closing"]_vars
  /\ [](SendFailed(err) => pc = "return" \/ pc = "closing" \/ pc = "done")
  /\ [](SendFailed(err) /\ pc = "done" => cb.closed = 1)

\* the second response of a stream could not be sent: the stream has ended
\* with that error and the teardown has run
C16_Witness ==
  /\ pc = "done"
  /\ err = "send error"
  /\ Len(sent) = 2
  /\ cb.closed = 1

\* C17: the processor returns nil when it takes the cancelled context or
\* the closed request channel, and a failing Recv makes the reader close the
\* request channel unless the stop flag is set.
C17_GracefulEnd ==
  /\ [][pc = "loop" /\ pc' = "return" /\ deltaResponses' = deltaResponses /\ rpc' = rpc
          => err' = "nil" /\ (ctxDone \/ reqClosed)]_vars
  /\ [][rpc = "recv" /\ rpc' = "exit"
          => IF reqStop = 0 THEN reqClosed' /\ ~reqClosed /\ nReqs' = nReqs
             ELSE reqClosed' = reqClosed]_vars
  /\ [][reqClosed' # reqClosed => rpc = "recv" /\ rpc' = "exit" /\ reqClosed']_vars
  /\ [](pc = "done" /\ err = "nil" => ctxDone \/ reqClosed)

\* Recv failed, the reader closed the request channel and the handler has
\* returned nil, the context not cancelled
C17_Witness ==
  /\ pc = "done"
  /\ err = "nil"
  /\ reqClosed
  /\ ~ctxDone
  /\ reqStop = 1

\* C18: whenever the processor is in its loop, the drain included, the nonce
\* recorded for a type is the Nonce of the type's stream state, both empty
\* when no response of the type was sent.
C18_NonceAgrees ==
  pc \in {"loop", "drain", "create", "blocked"}
    => \A t \in TypeURLs :
         deltaStreamStates[t].Nonce = (IF t \in DOMAIN deltaNonces THEN deltaNonces[t] ELSE "")

\* a request with an unsubscribe has cancelled its type's watch and the drain
\* has processed a response of the type
C18_Witness ==
  /\ pc = "create"
  /\ cur.req.Unsub # {}
  /\ cur.req.TypeUrl \in DOMAIN deltaNonces
  /\ deltaNonces[cur.req.TypeUrl] # cur.lastNonce
  /\ deltaStreamStates[cur.req.TypeUrl].Nonce = deltaNonces[cur.req.TypeUrl]

\* C19 as claimed: the cancel handle of a watch is invoked at most once over
\* the lifetime of the stream.
C19_CancelOnce ==
  \A w \in DOMAIN watches : watches[w].cancels <= 1

\* C20 as claimed: once the processor has returned the reader is not in a
\* push, does not start one and does not close the request channel.
C20_ReaderStops ==
  /\ [](pc = "done" => rpc # "push")
  /\ [][pc = "done" => rpc' # "push" /\ reqClosed' = reqClosed]_vars

\* the processor takes the response at the head of the channel in this step
\* and process() returns nil
Processed ==
  /\ deltaResponses # << >>
  /\ deltaResponses' = Tail(deltaResponses)
  /\ pc' # "return"

\* C21: a successful process() of a response of type t records the new nonce
\* for t, sets the cancel handle of t to nil and replaces the stream state of
\* t by (new nonce, the response's system version, the response's version
\* map); the nonce, the cancel handle and the stream state of every other type
\* stay as they were. While the processor runs the stream state of a type
\* changes in no other way but by the unsubscribes of a request of the type,
\* which leave its nonce and system version alone.
C21_ProcessFrame ==
  /\ [][Processed
          => LET w == Head(deltaResponses).watch
                 t == watches[w].typeUrl
                 nonce == FormatInt(streamNonce + 1)
             IN /\ streamNonce' = streamNonce + 1
                /\ sent' = Append(sent, nonce)
                /\ t \in DOMAIN deltaNonces' /\ deltaNonces'[t] = nonce
                /\ t \in DOMAIN deltaCancellations' /\ deltaCancellations'[t] = NilCancel
                /\ \E vm \in VersionMaps :
                     deltaStreamStates'[t] =
                       [Nonce |-> nonce, SystemVersion |-> SystemVersion(w),
                        ResourceVersions |-> vm]
                /\ \A u \in TypeURLs \ {t} :
                     /\ deltaStreamStates'[u] = deltaStreamStates[u]
                     /\ (u \in DOMAIN deltaNonces') = (u \in DOMAIN deltaNonces)
                     /\ Lookup(deltaNonces', u, "") = Lookup(deltaNonces, u, "")
                     /\ (u \in DOMAIN deltaCancellations') = (u \in DOMAIN deltaCancellations)
                     /\ Lookup(deltaCancellations', u, NilCancel)
                          = Lookup(deltaCancellations, u, NilCancel)]_vars
  /\ [][\A t \in TypeURLs :
          deltaStreamStates'[t] # deltaStreamStates[t] /\ pc # "closing"
            => \/ /\ deltaResponses # << >>
                  /\ deltaResponses' = Tail(deltaResponses)
                  /\ t = watches[Head(deltaResponses).watch].typeUrl
               \/ /\ pc = "loop" /\ rpc = "push" /\ rpc' = "recv"
                  /\ \E names \in SUBSET Resources :
                       deltaStreamStates'[t] =
                         [deltaStreamStates[t] EXCEPT !.ResourceVersions =
                            unsubscribe(names, @)]
                  /\ Starts
                       => /\ t = cur'.req.TypeUrl
                          /\ deltaStreamStates'[t] =
                               [deltaStreamStates[t] EXCEPT !.ResourceVersions =
                                  unsubscribe(cur'.req.Unsub, @)]]_vars
  /\ [](pc \in {"loop", "drain", "create", "blocked"}
          => \A t \in DOMAIN deltaNonces :
               \E w \in WatchesOf(t) :
                 /\ watches[w].phase = "processed"
                 /\ deltaStreamStates[t].SystemVersion = SystemVersion(w))

\* the second response of an ADS stream, of type cds, was processed while
\* eds has a nonce recorded and a watch registered: cds has the new nonce, no
\* cancel handle and the response's state, eds is as it was
C21_Witness ==
  /\ pc = "loop"
  /\ DOMAIN deltaNonces = {"cds", "eds"}
  /\ deltaNonces["eds"] = "1"
  /\ deltaNonces["cds"] = "2"
  /\ deltaCancellations["cds"] = NilCancel
  /\ deltaCancellations["eds"] # NilCancel
  /\ deltaStreamStates["eds"].Nonce = "1"
  /\ deltaStreamStates["cds"].Nonce = "2"
  /\ deltaStreamStates["cds"].ResourceVersions # EmptyVersions
  /\ sent = << "1", "2" >>

\* the requests the processor has taken off the request channel
Taken == nReqs - (IF rpc = "push" THEN 1 ELSE 0)

\* C22: when the stream-request callback returns an error the processor
\* returns that error in the same step, with no watch cancelled or created
\* and no response sent for the request, and the teardown follows: it invokes
\* the cancel handles held and the stream-closed callback. The callback of a
\* request is invoked when the request is taken, before any cancel, drain or
\* CreateDeltaWatch for it: whenever a watch is cancelled for replacement or
\* created, and throughout the drain, the callback has been invoked once per
\* request taken.
C22_CallbackErrorEnds ==
  /\ [][err' = "request error" /\ err # "request error"
          => /\ pc = "loop" /\ rpc = "push" /\ rpc' = "recv"
             /\ pc' = "return"
             /\ cb'.request = cb.request + 1
             /\ watches' = watches
             /\ deltaCancellations' = deltaCancellations
             /\ deltaResponses' = deltaResponses
             /\ sent' = sent]_vars
  /\ [][err = "request error"
          => /\ err' = err
             /\ Len(watches') = Len(watches)
             /\ sent' = sent
             /\ cb'.request = cb.request
             /\ \A w \in DOMAIN watches :
                  watches'[w].cancels =
                    watches[w].cancels + (IF pc = "return" /\ w \in Held THEN 1 ELSE 0)]_vars
  /\ [](err = "request error" => pc = "return" \/ pc = "closing" \/ pc = "done")
  /\ [](err = "request error" /\ pc = "done" => cb.closed = 1)
  /\ [][Starts => cb'.request = cb.request + 1 /\ cb'.request = Taken']_vars
  /\ [][(Len(watches') # Len(watches) \/ Cancels(watches') # Cancels(watches)) /\ pc # "return"
          => cb'.request = Taken']_vars
  /\ [](pc = "drain" \/ pc = "create" \/ pc = "blocked" => cb.request = Taken)

\* the callback rejected the second request of a stream while the watch of
\* the first was in place: no replacement was created, and the cancel handle
\* of the watch was invoked once, by the teardown
C22_Witness ==
  /\ pc = "done"
  /\ err = "request error"
  /\ cb.request = 2
  /\ cb.closed = 1
  /\ Len(watches) = 1
  /\ watches[1].cancels = 1

\* C23 as claimed: in the per-type-channel variant, once a response was sent
\* for a type, a request for the type whose ResponseNonce differs from the
\* nonce of the last response sent for the type neither cancels nor
\* re-creates the type's watch, whether it carries a Node or not.
C23_StaleIgnored ==
  cur.end = "ok" /\ cur.seen /\ cur.req.ResponseNonce # cur.lastNonce
    => cur.cancelled = NilCancel /\ cur.created = NilCancel

\* C24 as claimed: when the processor has returned and its teardown is
\* through, every watch registered on the stream has had its cancel handle
\* invoked or its response processed; and a cancel handle held for a type is
\* set to nil only by processing the response of the watch it belongs to,
\* never by processing the response of an earlier watch of the type.
C24_NoWatchLeaked ==
  /\ [](pc = "done"
          => \A w \in DOMAIN watches :
               watches[w].cancels >= 1 \/ watches[w].phase = "processed")
  /\ [][\A t \in TypeURLs :
          /\ HasCancel(deltaCancellations, t)
          /\ t \in DOMAIN deltaCancellations'
          /\ deltaCancellations'[t] = NilCancel
          => /\ deltaResponses # << >>
             /\ Head(deltaResponses).watch = deltaCancellations[t]]_vars

====
